---- MODULE Spec2Model ----
(***************************************************************************)
(* Model of uploader.py: a watchdog observer thread turns rename events    *)
(* into (file_path, room_id) tasks on an asyncio.Queue; the main coroutine *)
(* drains the queue one task at a time through UploadHandler.upload_file.  *)
(*                                                                         *)
(* Strings are tuples of one-character strings, so that endswith,          *)
(* os.path.basename, the regular expression of extract_frequency and int() *)
(* are computed rather than assumed.                                       *)
(*                                                                         *)
(* Interpreter assumptions: Python >= 3.8, where asyncio.CancelledError    *)
(* derives from BaseException and is therefore not caught by               *)
(* "except Exception"; asyncio runs in non-debug mode.                     *)
(***************************************************************************)
EXTENDS Integers, Sequences, FiniteSets, TLC

(***************************************************************************)
(* Bounds of the model.                                                    *)
(***************************************************************************)
\* number of filesystem events the watcher delivers in one run
MaxEvents == 3
\* longest frequency list returned by parse_channels
MaxFreqs == 2

(***************************************************************************)
(* Small universes for the inputs.                                         *)
(***************************************************************************)
\* frequencies (Hz) that a configuration block may yield
Freqs == {0, 1, 2}
\* room identifiers the homeserver may answer with
Rooms == {"!a", "!b"}
\* the lists parse_channels may return: any list of at most MaxFreqs frequencies
FreqLists == UNION {[1..n -> Freqs] : n \in 0..MaxFreqs}

\* destination paths of the events; the watched directory is "r"
p_a_1 == <<"r", "/", "a", "_", "1", ".", "m", "p", "3">>
p_b_01 == <<"r", "/", "b", "_", "0", "1", ".", "m", "p", "3">>
p_a_0 == <<"r", "/", "a", "_", "0", ".", "m", "p", "3">>
p_a_2 == <<"r", "/", "a", "_", "2", ".", "m", "p", "3">>
p_a == <<"r", "/", "a", ".", "m", "p", "3">>
p_a_1_wav == <<"r", "/", "a", "_", "1", ".", "w", "a", "v">>
p_a_x1 == <<"r", "/", "a", "_", "x", "1", ".", "m", "p", "3">>
Paths == {p_a_1, p_b_01, p_a_0, p_a_2, p_a, p_a_1_wav, p_a_x1}

\* the filesystem events as the handler sees them: a rename of a file to each
\* of the paths, a rename of a directory, and an event of another class
\* (only "moved" events reach on_moved)
Events ==
  [event_type : {"moved"}, is_directory : {FALSE}, dest_path : Paths]
    \cup {[event_type |-> "moved", is_directory |-> TRUE, dest_path |-> p_a_1],
          [event_type |-> "created", is_directory |-> FALSE, dest_path |-> p_a_1]}

(***************************************************************************)
(* String functions used by on_moved and extract_frequency.                *)
(***************************************************************************)
Digits == {"0", "1", "2", "3", "4", "5", "6", "7", "8", "9"}

DigitValue(c) ==
  CASE c = "0" -> 0 [] c = "1" -> 1 [] c = "2" -> 2 [] c = "3" -> 3 [] c = "4" -> 4
    [] c = "5" -> 5 [] c = "6" -> 6 [] c = "7" -> 7 [] c = "8" -> 8 [] c = "9" -> 9

\* str.endswith
endswith(s, suffix) ==
  /\ Len(s) >= Len(suffix)
  /\ SubSeq(s, Len(s) - Len(suffix) + 1, Len(s)) = suffix

\* os.path.basename: everything after the last "/"
basename(path) ==
  LET slashes == {i \in 1..Len(path) : path[i] = "/"}
  IN  IF slashes = {} THEN path
      ELSE LET last == CHOOSE i \in slashes : \A j \in slashes : j <= i
           IN  SubSeq(path, last + 1, Len(path))

\* int() of a non-empty digit string (leading zeros allowed)
RECURSIVE int(_)
int(ds) ==
  IF ds = <<>> THEN 0
  ELSE 10 * int(SubSeq(ds, 1, Len(ds) - 1)) + DigitValue(ds[Len(ds)])

\* None, as returned by extract_frequency when the pattern does not match
NoneValue == -1

\* re.search(r'_(\d+)\.mp3$', filename): the start positions of a match
FrequencyMatches(filename) ==
  {i \in 1..Len(filename) :
     /\ filename[i] = "_"
     /\ Len(filename) - 4 >= i + 1
     /\ \A j \in (i + 1)..(Len(filename) - 4) : filename[j] \in Digits
     /\ SubSeq(filename, Len(filename) - 3, Len(filename)) = <<".", "m", "p", "3">>}

\* UploadHandler.extract_frequency
extract_frequency(file_path) ==
  LET filename == basename(file_path)
      starts == FrequencyMatches(filename)
  IN  IF starts = {} THEN NoneValue
      ELSE LET i == CHOOSE k \in starts : \A m \in starts : k <= m
           IN  int(SubSeq(filename, i + 1, Len(filename) - 4))

\* Python truth value of extract_frequency's result: None and 0 are false
truthy(v) == v # NoneValue /\ v # 0

(***************************************************************************)
(* String functions used by the configuration parser.                      *)
(***************************************************************************)
\* the whitespace characters of the texts of the model
Whitespace == {" "}

\* str.strip(): the string without its leading and trailing whitespace
strip(s) ==
  LET inked == {i \in 1..Len(s) : s[i] \notin Whitespace}
  IN  IF inked = {} THEN <<>>
      ELSE SubSeq(s, CHOOSE i \in inked : \A j \in inked : i <= j,
                     CHOOSE i \in inked : \A j \in inked : j <= i)

\* str.startswith
startswith(s, prefix) ==
  /\ Len(s) >= Len(prefix)
  /\ SubSeq(s, 1, Len(prefix)) = prefix

\* sub occurs in s at position i
OccursAt(s, sub, i) ==
  /\ i >= 1
  /\ i + Len(sub) - 1 <= Len(s)
  /\ SubSeq(s, i, i + Len(sub) - 1) = sub

\* str.find(sub, start) with positions counted from 1: the first position
\* not before start at which sub occurs, 0 if there is none (Python: -1)
find(s, sub, start) ==
  LET hits == {i \in start..Len(s) : OccursAt(s, sub, i)}
  IN  IF hits = {} THEN 0 ELSE CHOOSE i \in hits : \A j \in hits : i <= j

\* "sub in s"
contains(s, sub) == find(s, sub, 1) # 0

\* the characters of s that are not underscores
RECURSIVE without_underscores(_)
without_underscores(s) ==
  IF s = <<>> THEN <<>>
  ELSE IF s[1] = "_" THEN without_underscores(Tail(s))
  ELSE <<s[1]>> \o without_underscores(Tail(s))

\* the digit string ds without its leading zeros ("0" for zero)
RECURSIVE without_leading_zeros(_)
without_leading_zeros(ds) ==
  IF Len(ds) <= 1 THEN (IF ds = <<>> THEN <<"0">> ELSE ds)
  ELSE IF ds[1] = "0" THEN without_leading_zeros(Tail(ds))
  ELSE ds

\* Python's "digitpart": digits, with single underscores allowed between them
digitpart(s) ==
  /\ s # <<>>
  /\ \A i \in 1..Len(s) : s[i] \in Digits \cup {"_"}
  /\ s[1] # "_"
  /\ s[Len(s)] # "_"
  /\ \A i \in 1..(Len(s) - 1) : ~(s[i] = "_" /\ s[i + 1] = "_")

\* a numeric string splits into an optional sign and the rest
signed(s) == s # <<>> /\ s[1] \in {"+", "-"}
unsigned(s) == IF signed(s) THEN Tail(s) ELSE s
negative(s) == s # <<>> /\ s[1] = "-"

\* Integers of any size are written as decimal numerals: a digit string
\* without leading zeros, preceded by "-" when negative.
Zero == <<"0">>
numeral(neg, ds) ==
  LET m == without_leading_zeros(ds)
  IN  IF neg /\ m # Zero THEN <<"-">> \o m ELSE m

\* what a function of the parser gives back: a value, None or an exception
Pending == [status |-> "pending", value |-> <<>>]
Returned(v) == [status |-> "returned", value |-> v]
None == [status |-> "None", value |-> <<>>]
Raised(exc) == [status |-> exc, value |-> <<>>]

\* int(s) for any string s: an optional sign and a digitpart, surrounded by
\* optional whitespace; anything else raises ValueError
python_int(s) ==
  LET t == strip(s)
  IN  IF digitpart(unsigned(t))
      THEN Returned(numeral(negative(t), without_underscores(unsigned(t))))
      ELSE Raised("ValueError")

(***************************************************************************)
(* Python floats.  A float is an IEEE-754 double: float(), the product and *)
(* int() are computed exactly, with the round-half-to-even of the          *)
(* hardware.  Natural numbers of any size are sequences of limbs (digits   *)
(* to the base 2^LimbBits), least significant first, without leading zero  *)
(* limbs (<<>> is zero).                                                   *)
(***************************************************************************)
\* 2^k for a small k
RECURSIVE power_of_two(_)
power_of_two(k) == IF k = 0 THEN 1 ELSE 2 * power_of_two(k - 1)

\* the width of a limb: the product of two limbs fits a machine integer
LimbBits == 15
Base == power_of_two(LimbBits)

\* the natural a with a small number added (carry < Base)
RECURSIVE add_small(_, _)
add_small(a, carry) ==
  IF carry = 0 THEN a
  ELSE IF a = <<>> THEN <<carry>>
  ELSE <<(a[1] + carry) % Base>> \o add_small(Tail(a), (a[1] + carry) \div Base)

\* the sum of two naturals and a carry
RECURSIVE add(_, _, _)
add(a, b, carry) ==
  IF a = <<>> THEN add_small(b, carry)
  ELSE IF b = <<>> THEN add_small(a, carry)
  ELSE <<(a[1] + b[1] + carry) % Base>>
         \o add(Tail(a), Tail(b), (a[1] + b[1] + carry) \div Base)

\* a * m + carry for small numbers m, carry < Base
RECURSIVE multiply_small(_, _, _)
multiply_small(a, m, carry) ==
  IF a = <<>> \/ m = 0 THEN (IF carry = 0 THEN <<>> ELSE <<carry>>)
  ELSE <<(a[1] * m + carry) % Base>>
         \o multiply_small(Tail(a), m, (a[1] * m + carry) \div Base)

\* the product of two naturals
RECURSIVE multiply_naturals(_, _)
multiply_naturals(a, b) ==
  IF a = <<>> \/ b = <<>> THEN <<>>
  ELSE add(multiply_small(a, b[1], 0),
           LET rest == multiply_naturals(a, Tail(b))
           IN  IF rest = <<>> THEN rest ELSE <<0>> \o rest,
           0)

\* the natural with the small value n
RECURSIVE natural(_)
natural(n) == IF n = 0 THEN <<>> ELSE <<n % Base>> \o natural(n \div Base)

\* the natural written by the digit string ds
RECURSIVE natural_of_digits(_)
natural_of_digits(ds) ==
  IF ds = <<>> THEN <<>>
  ELSE multiply_small(natural_of_digits(SubSeq(ds, 1, Len(ds) - 1)), 10,
                      DigitValue(ds[Len(ds)]))

\* a * 10^k
RECURSIVE times_power_of_ten(_, _)
times_power_of_ten(a, k) ==
  IF k = 0 THEN a
  ELSE IF k >= 4 THEN multiply_small(times_power_of_ten(a, k - 4), 10000, 0)
  ELSE multiply_small(times_power_of_ten(a, k - 1), 10, 0)

\* quotient and remainder of the natural a by the small number 0 < d < Base
RECURSIVE divide_small(_, _)
divide_small(a, d) ==
  IF a = <<>> THEN [quotient |-> <<>>, remainder |-> 0]
  ELSE LET high == divide_small(Tail(a), d)
           t == high.remainder * Base + a[1]
       IN  [quotient |-> IF t < d /\ high.quotient = <<>> THEN <<>>
                         ELSE <<t \div d>> \o high.quotient,
            remainder |-> t % d]

\* a \div 10^k, and whether the division left a remainder
RECURSIVE divide_by_power_of_ten(_, _)
divide_by_power_of_ten(a, k) ==
  IF k = 0 THEN [quotient |-> a, inexact |-> FALSE]
  ELSE LET d == divide_small(a, 10)
           rest == divide_by_power_of_ten(d.quotient, k - 1)
       IN  [quotient |-> rest.quotient,
            inexact |-> d.remainder # 0 \/ rest.inexact]

DigitChar(n) ==
  CASE n = 0 -> "0" [] n = 1 -> "1" [] n = 2 -> "2" [] n = 3 -> "3" [] n = 4 -> "4"
    [] n = 5 -> "5" [] n = 6 -> "6" [] n = 7 -> "7" [] n = 8 -> "8" [] n = 9 -> "9"

\* the four digits of a number below 10000
four_digits(n) ==
  <<DigitChar(n \div 1000), DigitChar((n \div 100) % 10),
    DigitChar((n \div 10) % 10), DigitChar(n % 10)>>

\* the digit string of the natural a (empty for zero), four digits at a time
RECURSIVE digits_of_natural(_)
digits_of_natural(a) ==
  IF a = <<>> THEN <<>>
  ELSE LET d == divide_small(a, 10000)
       IN  IF d.quotient = <<>> THEN without_leading_zeros(four_digits(d.remainder))
           ELSE digits_of_natural(d.quotient) \o four_digits(d.remainder)

\* a * 2^k
shift_left(a, k) ==
  IF a = <<>> THEN a
  ELSE [i \in 1..(k \div LimbBits) |-> 0]
         \o multiply_small(a, power_of_two(k % LimbBits), 0)

\* a \div 2^k
shift_right(a, k) ==
  IF k \div LimbBits >= Len(a) THEN <<>>
  ELSE divide_small(SubSeq(a, k \div LimbBits + 1, Len(a)),
                    power_of_two(k % LimbBits)).quotient

\* the number of bits of a small number
RECURSIVE bit_length_small(_)
bit_length_small(n) == IF n = 0 THEN 0 ELSE 1 + bit_length_small(n \div 2)

\* int.bit_length
bit_length(a) ==
  IF a = <<>> THEN 0 ELSE (Len(a) - 1) * LimbBits + bit_length_small(a[Len(a)])

\* bit i of the natural a, bit 1 being the least significant
bit(a, i) ==
  IF (i - 1) \div LimbBits >= Len(a) THEN 0
  ELSE (a[(i - 1) \div LimbBits + 1] \div power_of_two((i - 1) % LimbBits)) % 2

\* the width of the significand of a double
Precision == 53
\* doubles are below 2^MaxExponent
MaxExponent == 1024

\* A finite float is sign * significand * 2^exponent with a significand of at
\* most Precision bits (or exactly 2^Precision); inf is the overflow value.
Inf(neg) == [inf |-> TRUE, neg |-> neg, significand |-> <<>>, exponent |-> 0]
Finite(neg, m, e) ==
  IF bit_length(m) + e > MaxExponent THEN Inf(neg)
  ELSE [inf |-> FALSE, neg |-> neg, significand |-> m, exponent |-> e]

\* the double nearest to p * 2^e (ties to even); sticky tells that the exact
\* value lies strictly above p * 2^e and below (p + 1) * 2^e, and is set
\* only for p of more than Precision bits
round_to_double(neg, p, e, sticky) ==
  IF bit_length(p) <= Precision THEN Finite(neg, p, e)
  ELSE LET drop == bit_length(p) - Precision
           kept == shift_right(p, drop)
           half == bit(p, drop) = 1
           below == sticky \/ shift_left(shift_right(p, drop - 1), drop - 1) # p
           up == half /\ (below \/ bit(kept, 1) = 1)
       IN  Finite(neg, IF up THEN add_small(kept, 1) ELSE kept, e + drop)

\* the largest decimal exponent of a double: 10^(MaxDecimalExponent + 1)
\* exceeds every double
MaxDecimalExponent == 308

\* the double nearest to (the number written by digits) * 10^p: for p < 0
\* the quotient is computed with enough bits to round it
float_of_decimal(neg, digits, p) ==
  LET n == natural_of_digits(digits)
  IN  IF n = <<>> THEN Finite(neg, <<>>, 0)
      ELSE IF p >= 0
      THEN IF Len(without_leading_zeros(digits)) - 1 + p > MaxDecimalExponent
           THEN Inf(neg)
           ELSE round_to_double(neg, times_power_of_ten(n, p), 0, FALSE)
      ELSE LET k == Precision + 2 + 4 * (0 - p)
               d == divide_by_power_of_ten(shift_left(n, k), 0 - p)
           IN  round_to_double(neg, d.quotient, 0 - k, d.inexact)

\* float(s) for a string s: [sign] digitpart ["." [digitpart]] or
\* [sign] "." digitpart, then an optional exponent (e|E) [sign] digitpart;
\* anything else raises ValueError ("inf" and "nan" are never passed: the
\* callers pass a string with a "." or a match of \d+\.?\d*)
python_float(s) ==
  LET t == strip(s)
      u == unsigned(t)
      es == {i \in 1..Len(u) : u[i] \in {"e", "E"}}
      e == IF es = {} THEN Len(u) + 1 ELSE CHOOSE i \in es : \A j \in es : i <= j
      mantissa == SubSeq(u, 1, e - 1)
      exponent == SubSeq(u, e + 1, Len(u))
      dots == {i \in 1..Len(mantissa) : mantissa[i] = "."}
      dot == IF dots = {} THEN Len(mantissa) + 1 ELSE CHOOSE i \in dots : TRUE
      whole == SubSeq(mantissa, 1, dot - 1)
      fraction == SubSeq(mantissa, dot + 1, Len(mantissa))
      well_formed ==
        /\ es # {} => digitpart(unsigned(exponent))
        /\ Cardinality(dots) <= 1
        /\ whole = <<>> \/ digitpart(whole)
        /\ fraction = <<>> \/ digitpart(fraction)
        /\ whole # <<>> \/ fraction # <<>>
      power == IF es = {} THEN 0
               ELSE IF negative(exponent)
               THEN 0 - int(without_underscores(unsigned(exponent)))
               ELSE int(without_underscores(unsigned(exponent)))
  IN  IF well_formed
      THEN Returned(float_of_decimal(negative(t),
                      without_underscores(whole) \o without_underscores(fraction),
                      power - Len(without_underscores(fraction))))
      ELSE Raised("ValueError")

\* x * c for a float x and an int c that is exactly representable
multiply(x, c) ==
  IF x.inf THEN x
  ELSE round_to_double(x.neg, multiply_naturals(x.significand, natural(c)),
                       x.exponent, FALSE)

\* int(x) for a float x: truncation towards zero; OverflowError for inf
int_of_float(x) ==
  IF x.inf THEN Raised("OverflowError")
  ELSE Returned(numeral(x.neg,
         digits_of_natural(IF x.exponent >= 0
                           THEN shift_left(x.significand, x.exponent)
                           ELSE shift_right(x.significand, 0 - x.exponent))))

Quote == "\""
Units == {"k", "K", "m", "M", "g", "G"}

\* re.match(r'(\d+\.?\d*)([kKmMgG]?)$', s): the two groups, or no match
frequency_match(s) ==
  LET has_unit == s # <<>> /\ s[Len(s)] \in Units
      number == IF has_unit THEN SubSeq(s, 1, Len(s) - 1) ELSE s
      dots == {i \in 1..Len(number) : number[i] = "."}
      dot == IF dots = {} THEN Len(number) + 1 ELSE CHOOSE i \in dots : TRUE
  IN  [matched |-> /\ Cardinality(dots) <= 1
                   /\ dot >= 2
                   /\ \A i \in 1..Len(number) : i # dot => number[i] \in Digits,
       number |-> number,
       unit |-> IF has_unit THEN s[Len(s)] ELSE ""]

\* str.lower() of a unit letter
lower(c) ==
  CASE c = "K" -> "k" [] c = "M" -> "m" [] c = "G" -> "g" [] OTHER -> c

\* parse_frequency
parse_frequency(value_str) ==
  LET v == strip(value_str)
  IN  IF startswith(v, <<Quote>>) /\ endswith(v, <<Quote>>)
      THEN LET match == frequency_match(SubSeq(v, 2, Len(v) - 1))
               num_part == python_float(match.number).value
               multiplier == lower(match.unit)
           IN  IF ~match.matched THEN Raised("ValueError")
               ELSE IF multiplier = "k" THEN int_of_float(multiply(num_part, 1000))
               ELSE IF multiplier = "m" THEN int_of_float(multiply(num_part, 1000000))
               ELSE IF multiplier = "g" THEN int_of_float(multiply(num_part, 1000000000))
               ELSE int_of_float(num_part)
      ELSE IF contains(v, <<".">>)
      THEN LET x == python_float(v)
           IN  IF x.status = "returned" THEN int_of_float(multiply(x.value, 1000000))
               ELSE x
      ELSE python_int(v)

(***************************************************************************)
(* extract_channels_content.                                               *)
(***************************************************************************)
keyword == <<"c", "h", "a", "n", "n", "e", "l", "s", ":">>

\* the first position from i on that holds a parenthesis, 0 if there is none
next_parenthesis(content, i) ==
  LET found == {j \in i..Len(content) : content[j] \in {"(", ")"}}
  IN  IF found = {} THEN 0 ELSE CHOOSE j \in found : \A k \in found : j <= k

\* a mutation of scan: the first ")" closes the section, whatever the depth
scan_first(content, i, count) == find(content, <<")">>, i)

\* extract_channels_content, "for i in range(paren_start, len(content))":
\* the position of the ")" at which count returns to zero, 0 if the loop
\* ends without one; the characters that are no parentheses are passed over
RECURSIVE scan(_, _, _)
scan(content, i, count) ==
  LET j == next_parenthesis(content, i)
  IN  IF j = 0 THEN 0
      ELSE IF content[j] = "(" THEN scan(content, j + 1, count + 1)
      ELSE IF count - 1 = 0 THEN j
      ELSE scan(content, j + 1, count - 1)

\* extract_channels_content (positions are counted from 1)
extract_channels_content(content) ==
  LET channels_start == find(content, keyword, 1)
      paren_start == find(content, <<"(">>, channels_start)
      i == scan(content, paren_start, 0)
  IN  IF channels_start = 0 THEN None
      ELSE IF paren_start = 0 THEN None
      ELSE IF i = 0 THEN None
      ELSE IF i + 1 <= Len(content) /\ content[i + 1] = ";"
      THEN Returned(strip(SubSeq(content, paren_start + 1, i - 1)))
      ELSE None

(***************************************************************************)
(* parse_channels.                                                         *)
(***************************************************************************)
\* re.findall(r'\{.*?\}', content, re.DOTALL) from position start on: every
\* substring from a "{" to the next "}", the search resuming after the "}"
RECURSIVE channel_blocks(_, _)
channel_blocks(content, start) ==
  LET open == find(content, <<"{">>, start)
      close == find(content, <<"}">>, open + 1)
  IN  IF open = 0 \/ close = 0 THEN <<>>
      ELSE <<SubSeq(content, open, close)>> \o channel_blocks(content, close + 1)

\* the first position from i on that holds no whitespace (\s*)
RECURSIVE skip_whitespace(_, _)
skip_whitespace(s, i) ==
  IF i <= Len(s) /\ s[i] \in Whitespace THEN skip_whitespace(s, i + 1) ELSE i

\* re.search(r'freq\s*=\s*(.*?);', block): the leftmost "freq" that is
\* followed by "=" and later by ";", and group(1): the characters after the
\* whitespace that follows "=", up to the first ";" (the texts of the model
\* hold no newline, which "." would not match)
freq_match(block) ==
  LET equals(p) == skip_whitespace(block, p + 4)
      value(p) == skip_whitespace(block, equals(p) + 1)
      matches == {p \in 1..Len(block) :
                    /\ OccursAt(block, <<"f", "r", "e", "q">>, p)
                    /\ equals(p) <= Len(block)
                    /\ block[equals(p)] = "="
                    /\ find(block, <<";">>, value(p)) # 0}
      first == CHOOSE p \in matches : \A q \in matches : p <= q
  IN  [matched |-> matches # {},
       group |-> IF matches = {} THEN <<>>
                 ELSE SubSeq(block, value(first),
                             find(block, <<";">>, value(first)) - 1)]

disable_true == <<"d", "i", "s", "a", "b", "l", "e", " ", "=", " ", "t", "r", "u", "e", ";">>

\* an assignment "x = v" followed by the statements F(x): v is evaluated
\* once, when it is assigned
assign(v, F(_)) == CHOOSE r \in {F(x) : x \in {v}} : TRUE

\* parse_channels, the body of "for block in channel_blocks" for one block:
\* the frequency appended (a list of one), nothing, or the exception that
\* leaves the loop; "except ValueError" catches ValueError only
block_frequency(block, skip) ==
  LET is_disabled == contains(block, disable_true)
  IN  IF ~skip \/ ~is_disabled
      THEN assign(freq_match(block), LAMBDA match :
             IF match.matched
             THEN assign(parse_frequency(strip(match.group)), LAMBDA freq_hz :
                    IF freq_hz.status = "returned" THEN Returned(<<freq_hz.value>>)
                    ELSE IF freq_hz.status = "ValueError" THEN Returned(<<>>)
                    ELSE freq_hz)
             ELSE Returned(<<>>))
      ELSE Returned(<<>>)

\* parse_channels, the loop over the blocks: the list of frequencies, or the
\* exception that left it
RECURSIVE block_frequencies(_, _)
block_frequencies(blocks, skip) ==
  IF blocks = <<>> THEN Returned(<<>>)
  ELSE assign(block_frequency(Head(blocks), skip), LAMBDA first :
         IF first.status # "returned" THEN first
         ELSE assign(block_frequencies(Tail(blocks), skip), LAMBDA rest :
                IF rest.status # "returned" THEN rest
                ELSE Returned(first.value \o rest.value)))

\* parse_channels(config_path) for a file that is missing or has the given
\* content: a missing file, a missing section and any exception that leaves
\* the loop give the empty list
parse_channels(file, skip) ==
  IF ~file.exists THEN Returned(<<>>)
  ELSE assign(extract_channels_content(file.content), LAMBDA channels_content :
         IF channels_content = None THEN Returned(<<>>)
         ELSE assign(block_frequencies(channel_blocks(channels_content.value, 1), skip),
                LAMBDA frequencies_found :
                  IF frequencies_found.status # "returned" THEN Returned(<<>>)
                  ELSE frequencies_found))

(***************************************************************************)
(* Collaborators: asyncio.Queue, the exception hierarchy, the homeserver.  *)
(***************************************************************************)
\* asyncio.Queue() is created without maxsize: 0 means unbounded
maxsize == 0

full_at_one(q) == Len(q) >= 1

\* asyncio.Queue.full
full(q) == IF maxsize <= 0 THEN FALSE ELSE Len(q) >= maxsize

put_nowait_lifo(q, item) == <<item>> \o q

\* asyncio.Queue.put_nowait on a FIFO queue: append on the right
put_nowait(q, item) == Append(q, item)

\* asyncio.Queue.get: the item returned is the leftmost one
get_item(q) == Head(q)

get_rest_peek(q) == q

\* asyncio.Queue.get: the item returned is removed from the queue
get_rest(q) == Tail(q)

\* the exceptions a step of upload_file may see:
\*   FileNotFoundError, OSError and Exception derive from Exception;
\*   CancelledError derives from BaseException only
ExceptionClasses == {"FileNotFoundError", "OSError", "Exception"}

upload_file_catches_only_missing(exc) == exc = "FileNotFoundError"

upload_file_catches_all(exc) == TRUE

\* the except clauses of upload_file: FileNotFoundError, then Exception
upload_file_catches(exc) == exc = "FileNotFoundError" \/ exc \in ExceptionClasses

\* a mutation of main_on_exception: the handler of CancelledError is missing
main_on_exception_finally_only(exc) == "join"

\* the try statement of main: CancelledError runs observer.stop() before the
\* finally block, any other exception goes to the finally block directly
main_on_exception(exc) == IF exc = "CancelledError" THEN "stop" ELSE "join"

\* where an exception raised inside the try block of upload_file takes main
upload_file_on_exception(exc) ==
  IF upload_file_catches(exc) THEN "get" ELSE main_on_exception(exc)

NoRoom == "none"

\* a mutation of get_or_create_room: the answer of room_create is not tested
get_or_create_room_unchecked(resolved, created) ==
  IF resolved # NoRoom THEN resolved ELSE created

\* get_or_create_room: the room of the alias if it resolves, otherwise the
\* created room; "raise" when room_create answers RoomCreateError
get_or_create_room(resolved, created) ==
  IF resolved # NoRoom THEN resolved
  ELSE IF created = "RoomCreateError" THEN "raise"
  ELSE created

upload_failed_never(response) == FALSE

\* isinstance(upload_response, UploadError)
upload_failed(response) == response = "UploadError"

content_full_path(file_path, mxc_uri) ==
  [msgtype |-> "m.audio", body |-> file_path, url |-> mxc_uri]

\* the message content built by upload_file
content(file_path, mxc_uri) ==
  [msgtype |-> "m.audio", body |-> basename(file_path), url |-> mxc_uri]

spawn_upload_file == "get"

\* main awaits handler.upload_file(...): control enters upload_file, whose
\* first suspension point is the settle delay
await_upload_file == "sleep"

(***************************************************************************)
(* State.                                                                  *)
(***************************************************************************)
VARIABLES
  main_pc,       \* position of the main coroutine
  frequencies,   \* main: the list returned by parse_channels
  index,         \* main: position of the for loop over frequencies (1-based)
  room_ids,      \* main / UploadHandler.room_ids: frequency -> room id
  client,        \* the AsyncClient session: "open" or "closed"
  observer,      \* the watchdog Observer: "none", "running", "stopped", "joined"
  upload_queue,  \* the asyncio.Queue shared by the two contexts
  getter,        \* the future main waits on inside upload_queue.get()
  frame,         \* the running upload_file call: its file_path and room_id
  mxc_uri,       \* upload_file: the content URI taken from the upload response
  uploads,       \* media repository: number of upload calls received
  sent,          \* homeserver: the room_send calls received
  events,        \* number of filesystem events dispatched so far
  last_event,    \* the event dispatched last
  history,       \* per enqueued task: its life cycle and the calls made for it
  outcome,       \* how the most recent upload_file call ended ("none": running)
  cancelled,     \* whether the main task has been cancelled
  resolve_calls, \* the frequencies get_or_create_room has been called with, in order
  function,      \* the parser function under study ("none" while main runs)
  argument,      \* its argument: a configuration text or a value string
  skip_disabled, \* parse_channels: SKIP_DISABLED_CHANNELS is 'true'
  result         \* what the function returned or raised ("pending" before)

\* the variables of the study of the parser functions
parse_vars == <<function, argument, skip_disabled, result>>

vars == <<main_pc, frequencies, index, room_ids, client, observer, upload_queue,
          getter, frame, mxc_uri, uploads, sent, events, last_event, history,
          outcome, cancelled, resolve_calls, parse_vars>>

NoFrame == [id |-> 0, file_path |-> <<>>, room_id |-> NoRoom]
NoUri == <<>>
NoEvent == [event_type |-> "none", is_directory |-> FALSE, dest_path |-> <<>>]

\* the content URI the media repository returns for its n-th upload
content_uri(n) == <<"mxc", n>>

\* history of a task that has just been put on the queue
Enqueued(task) ==
  [file_path |-> task.file_path, room_id |-> task.room_id, life |-> "Queued",
   calls |-> <<>>, dequeued |-> 0, uri |-> NoUri]

\* main has logged in and parse_channels has returned
Init ==
  /\ main_pc = "check"
  /\ frequencies \in FreqLists
  /\ index = 1
  /\ room_ids = [f \in {} |-> NoRoom]
  /\ client = "open"
  /\ observer = "none"
  /\ upload_queue = <<>>
  /\ getter = "none"
  /\ frame = NoFrame
  /\ mxc_uri = NoUri
  /\ uploads = 0
  /\ sent = {}
  /\ events = 0
  /\ last_event = NoEvent
  /\ history = <<>>
  /\ outcome = "none"
  /\ cancelled = FALSE
  /\ resolve_calls = <<>>
  /\ function = "none"
  /\ argument = <<>>
  /\ skip_disabled = TRUE
  /\ result = Pending

\* a mutation of loop_exhausted: the loop is left after its first iteration
loop_exhausted_after_one(i, fs) == i > 1

\* main, "for frequency in frequencies": the iterator has no entry left when
\* i - 1 entries have been taken
loop_exhausted(i, fs) == i > Len(fs)

\* a mutation of not_frequencies: the emptiness test never succeeds
not_frequencies_never(fs) == FALSE

\* main, "if not frequencies": a list is false exactly when it is empty
not_frequencies(fs) == fs = <<>>

(***************************************************************************)
(* main: start-up.                                                         *)
(***************************************************************************)
\* main: "if not frequencies": close the client and return
CheckFrequencies ==
  /\ main_pc = "check"
  /\ IF not_frequencies(frequencies)
     THEN /\ client' = "closed"
          /\ main_pc' = "done"
     ELSE /\ main_pc' = "resolve"
          /\ UNCHANGED client
  /\ UNCHANGED <<frequencies, index, room_ids, observer, upload_queue, getter, frame,
                 mxc_uri, uploads, sent, events, last_event, history, outcome, cancelled>>
  /\ UNCHANGED <<resolve_calls, parse_vars>>

\* main: one iteration of "for frequency in frequencies"; the homeserver
\* answers the alias lookup with a room or with none, and the creation with a
\* room or with RoomCreateError
ResolveRoom ==
  /\ main_pc = "resolve"
  /\ ~loop_exhausted(index, frequencies)
  /\ resolve_calls' = Append(resolve_calls, frequencies[index])
  /\ \E resolved \in Rooms \cup {NoRoom}, created \in Rooms \cup {"RoomCreateError"} :
       LET frequency == frequencies[index]
           room_id == get_or_create_room(resolved, created)
       IN  IF room_id = "raise"
           THEN /\ main_pc' = "raised"
                /\ UNCHANGED <<room_ids, index>>
           ELSE /\ room_ids' = [f \in DOMAIN room_ids \cup {frequency} |->
                                  IF f = frequency THEN room_id ELSE room_ids[f]]
                /\ index' = index + 1
                /\ UNCHANGED main_pc
  /\ UNCHANGED <<frequencies, client, observer, upload_queue, getter, frame,
                 mxc_uri, uploads, sent, events, last_event, history, outcome, cancelled>>
  /\ UNCHANGED parse_vars

\* main: create the queue, the handler and the observer, start the observer
\* and enter the consumer loop
StartObserver ==
  /\ main_pc = "resolve"
  /\ loop_exhausted(index, frequencies)
  /\ upload_queue' = <<>>
  /\ observer' = "running"
  /\ main_pc' = "get"
  /\ UNCHANGED <<frequencies, index, room_ids, client, getter, frame, mxc_uri,
                 uploads, sent, events, last_event, history, outcome, cancelled>>
  /\ UNCHANGED <<resolve_calls, parse_vars>>

(***************************************************************************)
(* The event-source context: watchdog dispatching to UploadHandler.        *)
(***************************************************************************)
mp3 == <<".", "m", "p", "3">>

\* on_moved: the conditions under which the handler reaches put_nowait
on_moved_enqueues(event) ==
  /\ ~event.is_directory
  /\ endswith(event.dest_path, mp3)
  /\ LET frequency == extract_frequency(event.dest_path)
     IN  truthy(frequency) /\ frequency \in DOMAIN room_ids

\* on_moved: the task put on the queue
on_moved_task(event) ==
  [id |-> Len(history) + 1,
   file_path |-> event.dest_path,
   room_id |-> room_ids[extract_frequency(event.dest_path)]]

\* UploadHandler.on_moved, run on the observer thread.  put_nowait resolves
\* the future of a waiting getter by Future.set_result, which schedules the
\* wake-up with loop.call_soon from a foreign thread: the callback is placed
\* on the ready list, and the loop sees it only if it has not yet gone to
\* sleep in its selector ("ready") or when something else wakes the selector
\* ("ready_asleep").
on_moved(event) ==
  /\ observer = "running"
  /\ events < MaxEvents
  /\ event.event_type = "moved"
  /\ events' = events + 1
  /\ last_event' = event
  /\ IF on_moved_enqueues(event)
     THEN /\ ~full(upload_queue)
          /\ upload_queue' = put_nowait(upload_queue, on_moved_task(event))
          /\ history' = Append(history, Enqueued(on_moved_task(event)))
          /\ IF getter = "pending"
             THEN getter' \in {"ready", "ready_asleep"}
             ELSE UNCHANGED getter
     ELSE UNCHANGED <<upload_queue, history, getter>>
  /\ UNCHANGED <<main_pc, frequencies, index, room_ids, client, observer, frame,
                 mxc_uri, uploads, sent, outcome, cancelled>>
  /\ UNCHANGED <<resolve_calls, parse_vars>>

\* an event of another class: UploadHandler does not override its handler,
\* FileSystemEventHandler's default does nothing
on_other_event(event) ==
  /\ observer = "running"
  /\ events < MaxEvents
  /\ event.event_type # "moved"
  /\ events' = events + 1
  /\ last_event' = event
  /\ UNCHANGED <<main_pc, frequencies, index, room_ids, client, observer,
                 upload_queue, getter, frame, mxc_uri, uploads, sent, history,
                 outcome, cancelled>>
  /\ UNCHANGED <<resolve_calls, parse_vars>>

(***************************************************************************)
(* The consumer context: the loop of main and upload_file.                 *)
(***************************************************************************)
\* the history after the calls cs have been made for the running task and
\* the task has reached the life-cycle state life
Logged(cs, life) ==
  [history EXCEPT ![frame.id].calls = @ \o cs, ![frame.id].life = life]

\* upload_file is left (by return or by an exception) after the calls cs
LeaveUploadFile(cs, life, how) ==
  /\ history' = Logged(cs, life)
  /\ outcome' = how
  /\ frame' = NoFrame
  /\ mxc_uri' = NoUri

\* an exception raised inside the try block of upload_file, after the calls cs
RaiseInTry(exc, cs) ==
  /\ main_pc' = upload_file_on_exception(exc)
  /\ LeaveUploadFile(cs, IF upload_file_catches(exc) THEN "Done" ELSE "Abandoned", exc)

\* upload_file returns normally after the calls cs; main calls task_done and
\* loops
ReturnFromUploadFile(cs, how) ==
  /\ main_pc' = "get"
  /\ LeaveUploadFile(cs, "Done", how)

\* upload_queue.get() entered: a non-empty queue hands over its first item
\* without suspending and main calls upload_file; an empty queue makes get()
\* create a getter future
GetCheck ==
  /\ main_pc = "get"
  /\ IF upload_queue # <<>>
     THEN /\ frame' = get_item(upload_queue)
          /\ upload_queue' = get_rest(upload_queue)
          /\ history' = [history EXCEPT ![get_item(upload_queue).id].life = "InFlight",
                                        ![get_item(upload_queue).id].dequeued = @ + 1]
          /\ outcome' = "none"
          /\ main_pc' = await_upload_file
     ELSE /\ main_pc' = "get_empty"
          /\ UNCHANGED <<frame, upload_queue, history, outcome>>
  /\ UNCHANGED <<frequencies, index, room_ids, client, observer, getter, mxc_uri,
                 uploads, sent, events, last_event, cancelled>>
  /\ UNCHANGED <<resolve_calls, parse_vars>>

\* upload_queue.get(): having seen the queue empty, register the getter and
\* suspend.  The observer thread may have put an item in between.
GetRegister ==
  /\ main_pc = "get_empty"
  /\ getter' = "pending"
  /\ main_pc' = "wait"
  /\ UNCHANGED <<frequencies, index, room_ids, client, observer, upload_queue, frame,
                 mxc_uri, uploads, sent, events, last_event, history, outcome, cancelled>>
  /\ UNCHANGED <<resolve_calls, parse_vars>>

\* the event loop runs the wake-up of main: get() checks the queue again
GetResume ==
  /\ main_pc = "wait"
  /\ getter = "ready"
  /\ getter' = "none"
  /\ main_pc' = "get"
  /\ UNCHANGED <<frequencies, index, room_ids, client, observer, upload_queue, frame,
                 mxc_uri, uploads, sent, events, last_event, history, outcome, cancelled>>
  /\ UNCHANGED <<resolve_calls, parse_vars>>

\* some unrelated timer or I/O event makes the selector of the event loop
\* return, so that the loop notices the wake-up left on its ready list
SelectorWakes ==
  /\ getter = "ready_asleep"
  /\ getter' = "ready"
  /\ UNCHANGED <<main_pc, frequencies, index, room_ids, client, observer,
                 upload_queue, frame, mxc_uri, uploads, sent, events, last_event,
                 history, outcome, cancelled>>
  /\ UNCHANGED <<resolve_calls, parse_vars>>

\* upload_file: the settle delay is over; open the file and call client.upload
SleepDone ==
  /\ main_pc = "sleep"
  /\ \E opened \in {"ok", "FileNotFoundError", "OSError"} :
       IF opened = "ok"
       THEN /\ uploads' = uploads + 1
            /\ history' = Logged(<<"sleep", "upload">>, "InFlight")
            /\ main_pc' = "upload"
            /\ UNCHANGED <<frame, mxc_uri, outcome>>
       ELSE /\ RaiseInTry(opened, <<"sleep">>)
            /\ UNCHANGED uploads
  /\ UNCHANGED <<frequencies, index, room_ids, client, observer, upload_queue,
                 getter, sent, events, last_event, cancelled>>
  /\ UNCHANGED <<resolve_calls, parse_vars>>

\* upload_file: client.upload completes with an UploadResponse, with an
\* UploadError or by raising; after an UploadResponse the message is built
\* and client.room_send is called
UploadReturns ==
  /\ main_pc = "upload"
  /\ \E response \in {"UploadResponse", "UploadError", "Exception"} :
       IF response = "Exception"
       THEN /\ RaiseInTry(response, <<>>)
            /\ UNCHANGED sent
       ELSE IF upload_failed(response)
       THEN /\ ReturnFromUploadFile(<<>>, response)
            /\ UNCHANGED sent
       ELSE LET uri == IF response = "UploadResponse" THEN content_uri(uploads)
                       ELSE NoUri
            IN  /\ mxc_uri' = uri
                /\ sent' = sent \cup {[id |-> frame.id, room_id |-> frame.room_id,
                                       content |-> content(frame.file_path, uri)]}
                /\ history' = [Logged(<<"send">>, "InFlight") EXCEPT
                                 ![frame.id].uri = uri]
                /\ main_pc' = "send"
                /\ UNCHANGED <<frame, outcome>>
  /\ UNCHANGED <<frequencies, index, room_ids, client, observer, upload_queue,
                 getter, uploads, events, last_event, cancelled>>
  /\ UNCHANGED <<resolve_calls, parse_vars>>

\* upload_file: client.room_send completes with a response, with a
\* RoomSendError or by raising; each way the task is over
SendReturns ==
  /\ main_pc = "send"
  /\ \E response \in {"RoomSendResponse", "RoomSendError", "Exception"} :
       IF response = "Exception"
       THEN RaiseInTry(response, <<>>)
       ELSE ReturnFromUploadFile(<<>>, response)
  /\ UNCHANGED <<frequencies, index, room_ids, client, observer, upload_queue,
                 getter, uploads, sent, events, last_event, cancelled>>
  /\ UNCHANGED <<resolve_calls, parse_vars>>

(***************************************************************************)
(* Cancellation and shutdown.                                              *)
(***************************************************************************)
\* the places where main is suspended and a CancelledError can be thrown in
SuspensionPoints == {"resolve", "wait", "sleep", "upload", "send"}

\* the main task is cancelled: CancelledError is raised at the await where
\* main is suspended
Cancel ==
  /\ ~cancelled
  /\ main_pc \in SuspensionPoints
  /\ cancelled' = TRUE
  /\ CASE main_pc = "resolve" ->
            \* outside the try statement of main
            /\ main_pc' = "raised"
            /\ UNCHANGED <<getter, frame, mxc_uri, history, outcome>>
       [] main_pc = "wait" ->
            /\ main_pc' = main_on_exception("CancelledError")
            /\ getter' = "none"
            /\ UNCHANGED <<frame, mxc_uri, history, outcome>>
       [] main_pc = "sleep" ->
            \* asyncio.sleep is outside the try block of upload_file
            /\ main_pc' = main_on_exception("CancelledError")
            /\ LeaveUploadFile(<<>>, "Abandoned", "CancelledError")
            /\ UNCHANGED getter
       [] main_pc \in {"upload", "send"} ->
            /\ RaiseInTry("CancelledError", <<>>)
            /\ UNCHANGED getter
  /\ UNCHANGED <<frequencies, index, room_ids, client, observer, upload_queue,
                 uploads, sent, events, last_event>>
  /\ UNCHANGED <<resolve_calls, parse_vars>>

\* main, except asyncio.CancelledError: observer.stop()
ObserverStop ==
  /\ main_pc = "stop"
  /\ observer' = "stopped"
  /\ main_pc' = "join"
  /\ UNCHANGED <<frequencies, index, room_ids, client, upload_queue, getter, frame,
                 mxc_uri, uploads, sent, events, last_event, history, outcome, cancelled>>
  /\ UNCHANGED <<resolve_calls, parse_vars>>

\* main, finally: observer.join() returns once the observer thread has ended,
\* which it does only after stop()
ObserverJoin ==
  /\ main_pc = "join"
  /\ observer = "stopped"
  /\ observer' = "joined"
  /\ main_pc' = "close"
  /\ UNCHANGED <<frequencies, index, room_ids, client, upload_queue, getter, frame,
                 mxc_uri, uploads, sent, events, last_event, history, outcome, cancelled>>
  /\ UNCHANGED <<resolve_calls, parse_vars>>

\* main, finally: await client.close()
ClientClose ==
  /\ main_pc = "close"
  /\ client' = "closed"
  /\ main_pc' = "done"
  /\ UNCHANGED <<frequencies, index, room_ids, observer, upload_queue, getter, frame,
                 mxc_uri, uploads, sent, events, last_event, history, outcome, cancelled>>
  /\ UNCHANGED <<resolve_calls, parse_vars>>

WatcherStep == \E event \in Events : on_moved(event) \/ on_other_event(event)

ConsumerStep ==
  \/ CheckFrequencies
  \/ ResolveRoom
  \/ StartObserver
  \/ GetCheck
  \/ GetRegister
  \/ GetResume
  \/ SleepDone
  \/ UploadReturns
  \/ SendReturns
  \/ ObserverStop
  \/ ObserverJoin
  \/ ClientClose

Next ==
  \/ CheckFrequencies
  \/ ResolveRoom
  \/ StartObserver
  \/ \E event \in Events : on_moved(event)
  \/ \E event \in Events : on_other_event(event)
  \/ GetCheck
  \/ GetRegister
  \/ GetResume
  \/ SelectorWakes
  \/ SleepDone
  \/ UploadReturns
  \/ SendReturns
  \/ Cancel
  \/ ObserverStop
  \/ ObserverJoin
  \/ ClientClose

Spec == Init /\ [][Next]_vars

\* the event loop runs every callback on its ready list that it knows of,
\* and every collaborator call eventually completes; nothing guarantees that
\* the selector is woken, that an event arrives or that the task is cancelled
FairSpec == Spec /\ WF_vars(ConsumerStep)

(***************************************************************************)
(* Properties.                                                             *)
(***************************************************************************)
Tasks == 1..Len(history)

\* the tasks whose upload_file call has begun and has not ended
InFlight == {i \in Tasks : history[i].life = "InFlight"}

\* C1: at most one task is in flight, it is the one upload_file is running
\* for, and whenever main is at upload_queue.get() (about to dequeue, or
\* suspended in it) no task is in flight.
C1_OneInFlight ==
  /\ Cardinality(InFlight) <= 1
  /\ \A i \in InFlight : frame.id = i /\ main_pc \in {"sleep", "upload", "send"}
  /\ main_pc \in {"get", "get_empty", "wait"} => InFlight = {}

\* C1 witness: a burst has queued two tasks behind the one being uploaded
C1_Witness ==
  /\ main_pc = "upload"
  /\ Cardinality(InFlight) = 1
  /\ Len(upload_queue) >= 2

\* C2: tasks are uploaded in the order on_moved appended them (task i is the
\* i-th one appended): a task has left the queue only if every task appended
\* before it is done, and the queue holds the waiting tasks oldest first.
C2_Fifo ==
  /\ \A i, j \in Tasks :
       (i < j /\ history[j].life # "Queued") => history[i].life = "Done"
  /\ \A k \in 1..Len(upload_queue) :
       /\ history[upload_queue[k].id].life = "Queued"
       /\ \A m \in 1..Len(upload_queue) : k < m => upload_queue[k].id < upload_queue[m].id

\* C2 witness: the second task appended is being uploaded after the first
\* has been completed, the third is still waiting
C2_Witness ==
  /\ Len(history) = 3
  /\ history[1].life = "Done"
  /\ history[2].life = "InFlight"
  /\ history[3].life = "Queued"
  /\ history[1].file_path # history[2].file_path

\* the ways an upload_file call can fail
Failures == {"FileNotFoundError", "OSError", "UploadError", "Exception", "RoomSendError"}

\* C3: whichever failure ends an upload_file call, the step that ends it
\* leaves main in its loop at upload_queue.get() with the observer running,
\* the task done and the queue untouched; and from there, with a task
\* waiting, the next thing main does is to take the task at the front.
C3_FailureContained ==
  [][ /\ (outcome = "none" /\ outcome' \in Failures) =>
            /\ main_pc' = "get"
            /\ observer' = "running"
            /\ client' = "open"
            /\ history'[frame.id].life = "Done"
            /\ upload_queue' = upload_queue
      /\ (main_pc = "get" /\ outcome \in Failures /\ upload_queue # <<>>
             /\ main_pc' # main_pc) =>
            /\ main_pc' = "sleep"
            /\ frame' = upload_queue[1]
    ]_vars

\* C3 witness: the first task failed at open() (only the settle delay was
\* taken, no upload call) and the second task is now being processed
C3_Witness ==
  /\ Len(history) >= 2
  /\ history[1].life = "Done"
  /\ history[1].calls = <<"sleep">>
  /\ history[2].life = "InFlight"
  /\ main_pc = "upload"

\* the longest run of digits at the end of s
RECURSIVE TrailingDigits(_)
TrailingDigits(s) ==
  IF s = <<>> \/ s[Len(s)] \notin Digits THEN <<>>
  ELSE Append(TrailingDigits(SubSeq(s, 1, Len(s) - 1)), s[Len(s)])

\* the file name of path without its directory
FileName(path) ==
  IF \E i \in 1..Len(path) : path[i] = "/"
  THEN LET i == CHOOSE k \in 1..Len(path) :
                   path[k] = "/" /\ \A m \in (k + 1)..Len(path) : path[m] # "/"
       IN  SubSeq(path, i + 1, Len(path))
  ELSE path

\* the digit group of a file name of the form <anything>_<digits>.mp3, or <<>>
DigitGroup(path) ==
  LET name == FileName(path)
      stem == SubSeq(name, 1, Len(name) - 4)
      group == TrailingDigits(stem)
  IN  IF /\ Len(name) >= 4
         /\ SubSeq(name, Len(name) - 3, Len(name)) = <<".", "m", "p", "3">>
         /\ group # <<>>
         /\ Len(stem) > Len(group)
         /\ stem[Len(stem) - Len(group)] = "_"
      THEN group
      ELSE <<>>

\* the event is a rename of a file to a name ending in _<digits>.mp3 whose
\* digits denote a frequency of the destination table
C4_Qualifies(event) ==
  /\ event.event_type = "moved"
  /\ ~event.is_directory
  /\ DigitGroup(event.dest_path) # <<>>
  /\ int(DigitGroup(event.dest_path)) \in DOMAIN room_ids

\* C4: an event appends a task if and only if it is a rename of a file to a
\* name ending in _<digits>.mp3 whose digits, read as an integer, are a key of
\* the destination table; the task appended is (path, room of the frequency),
\* and in every other case the queue is left as it is.
C4_EnqueueIff ==
  [][ events' = events + 1 =>
        IF C4_Qualifies(last_event')
        THEN /\ Len(upload_queue') = Len(upload_queue) + 1
             /\ SubSeq(upload_queue', 1, Len(upload_queue)) = upload_queue
             /\ upload_queue'[Len(upload_queue')].file_path = last_event'.dest_path
             /\ upload_queue'[Len(upload_queue')].room_id =
                  room_ids[int(DigitGroup(last_event'.dest_path))]
        ELSE upload_queue' = upload_queue
    ]_vars

\* C5: every room_send call made by upload_file carries the room of the task
\* it was made for, which is the room the destination table gives for the
\* frequency in the task's file name; its body is the file name of the task
\* and its url the content URI the media repository returned for the upload
\* of that task and of no other task.
C5_Routing ==
  \A m \in sent :
    /\ m.id \in Tasks
    /\ m.room_id = history[m.id].room_id
    /\ m.room_id = room_ids[int(DigitGroup(history[m.id].file_path))]
    /\ m.content.msgtype = "m.audio"
    /\ m.content.body = FileName(history[m.id].file_path)
    /\ m.content.url = history[m.id].uri
    /\ m.content.url # NoUri
    /\ \A j \in Tasks : j # m.id => history[j].uri # m.content.url

\* C5 witness: messages have been sent for two tasks with different file
\* names and different rooms
C5_Witness ==
  \E m1, m2 \in sent :
    /\ m1.room_id # m2.room_id
    /\ m1.content.body # m2.content.body
    /\ m1.content.url # m2.content.url

\* how many times the call name occurs in a task's list of calls
Count(calls, name) == Cardinality({k \in 1..Len(calls) : calls[k] = name})

\* the task whose upload_file call ended last (0 if none has ended)
LastEnded ==
  LET ended == {i \in Tasks : history[i].life \in {"Done", "Abandoned"}}
  IN  IF ended = {} THEN 0 ELSE CHOOSE i \in ended : \A j \in ended : j <= i

\* C6: the calls made for a task are, in this order, the settle delay, at most
\* one upload call and at most one send call; the send call is made only
\* after the upload call returned a content URI; a completed task has had its
\* settle delay; a task that ended because the file could not be opened has
\* had no upload call and no send call, one whose upload failed has had one
\* upload call and no send call, one whose send call returned has had exactly
\* one of each; and no call is made for a task while an earlier one is
\* unfinished.
C6_StepOrder ==
  /\ \A i \in Tasks :
       /\ history[i].calls \in {<<>>, <<"sleep">>, <<"sleep", "upload">>,
                                <<"sleep", "upload", "send">>}
       /\ history[i].life = "Queued" => history[i].calls = <<>>
       /\ history[i].life = "Done" => history[i].calls # <<>>
       /\ Len(history[i].calls) = 3 => history[i].uri # NoUri
       /\ \A j \in Tasks :
            (i < j /\ history[j].calls # <<>>) => history[i].life = "Done"
  /\ (LastEnded # 0 /\ frame = NoFrame) =>
       LET calls == history[LastEnded].calls
       IN  /\ outcome \in {"FileNotFoundError", "OSError"} => calls = <<"sleep">>
           /\ outcome = "UploadError" => calls = <<"sleep", "upload">>
           /\ outcome = "Exception" => Len(calls) >= 2
           /\ outcome \in {"RoomSendResponse", "RoomSendError"} =>
                calls = <<"sleep", "upload", "send">>

\* C6 as stated: every task that has been processed has had its settle
\* delay and then exactly one upload call, and a send call exactly if the
\* upload returned a content URI.  A task whose file cannot be opened has no
\* upload call at all.
C6_ExactlyOneUpload ==
  \A i \in Tasks :
    history[i].life = "Done" =>
      /\ Len(history[i].calls) >= 2
      /\ history[i].calls[1] = "sleep"
      /\ history[i].calls[2] = "upload"
      /\ Count(history[i].calls, "upload") = 1
      /\ Count(history[i].calls, "send") = (IF history[i].uri # NoUri THEN 1 ELSE 0)

\* C6 witness: the first task went through delay, upload and send; the
\* second ended after its upload call without a send; the third ended at
\* open() with FileNotFoundError, after the delay and without an upload call
C6_Witness ==
  /\ Len(history) = 3
  /\ history[1].life = "Done"
  /\ history[1].calls = <<"sleep", "upload", "send">>
  /\ history[2].life = "Done"
  /\ history[2].calls = <<"sleep", "upload">>
  /\ history[3].life = "Done"
  /\ history[3].calls = <<"sleep">>
  /\ outcome = "FileNotFoundError"
  /\ Cardinality(sent) = 1
  /\ uploads = 2

\* C7: a task's life cycle only moves forward (Queued, InFlight, then Done or
\* Abandoned), a task is taken from the queue at most once and is not on the
\* queue once taken, and at most one upload call and one send call are made
\* for it.
LifeRank(life) ==
  CASE life = "Queued" -> 1 [] life = "InFlight" -> 2 [] life = "Done" -> 3
    [] life = "Abandoned" -> 3

C7_AtMostOnce ==
  [][ /\ \A i \in Tasks :
           /\ i \in 1..Len(history')
           /\ LifeRank(history'[i].life) >= LifeRank(history[i].life)
           /\ history[i].life \in {"Done", "Abandoned"} => history'[i] = history[i]
      /\ \A i \in 1..Len(history') :
           /\ history'[i].dequeued <= 1
           /\ history'[i].dequeued = 1 <=> history'[i].life # "Queued"
           /\ Count(history'[i].calls, "upload") <= 1
           /\ Count(history'[i].calls, "send") <= 1
           /\ Cardinality({m \in sent' : m.id = i}) <= 1
           /\ Cardinality({k \in 1..Len(upload_queue') : upload_queue'[k].id = i})
                = IF history'[i].life = "Queued" THEN 1 ELSE 0
    ]_vars

\* C7 witness: a task that failed is done, is not on the queue, and the
\* consumer has gone on to later tasks
C7_Witness ==
  /\ Len(history) = 3
  /\ history[1].life = "Done"
  /\ history[1].calls = <<"sleep", "upload">>
  /\ history[2].life = "Done"
  /\ history[3].life = "InFlight"
  /\ upload_queue = <<>>

\* C8: unless the main task is cancelled, every task appended by on_moved is
\* eventually taken from the queue by the consumer.
C8_HandOff ==
  \A i \in 1..MaxEvents :
    (i \in Tasks /\ history[i].life = "Queued")
      ~> ((i \in Tasks /\ history[i].life # "Queued") \/ cancelled)

\* the runs in which parse_channels has returned the single frequency 1
InitOne == Init /\ frequencies = <<1>>

SpecOne == InitOne /\ [][Next]_vars

\* the rename of a recording of frequency 1 into the watched directory
RenameOfRecording == [event_type |-> "moved", is_directory |-> FALSE, dest_path |-> p_a_1]

\* the observer thread handles that rename and appends its task to the queue
AppendTask ==
  /\ on_moved(RenameOfRecording)
  /\ Len(upload_queue') = Len(upload_queue) + 1

\* the rename leads on_moved to put_nowait (its frequency has a room)
SomeEventQualifies == on_moved_enqueues(RenameOfRecording)

\* C9: while the observer runs (and the watcher has an event left to
\* deliver), the append of a task by on_moved is enabled, whatever the queue
\* holds and wherever the consumer is.
C9_EnqueueNeverBlocks ==
  (observer = "running" /\ events < MaxEvents /\ SomeEventQualifies)
    => ENABLED AppendTask

\* C9 witness: the consumer is in the middle of a send, a task is waiting
\* behind it, and a further append is possible
C9_Witness ==
  /\ main_pc = "send"
  /\ Len(upload_queue) >= 1
  /\ last_event.event_type = "moved"
  /\ on_moved_enqueues(last_event)
  /\ events < MaxEvents
  /\ ENABLED AppendTask

\* C10: once the main task has been cancelled nothing is taken from the
\* queue, no upload or send call is made and the tasks still queued stay
\* untouched; a cancellation inside the consumer loop takes main to
\* observer.stop(); the observer is joined only after it has been stopped,
\* and the client of a started observer is closed only after the join.
C10_ShutdownOrder ==
  [][ /\ cancelled =>
            /\ Len(upload_queue') >= Len(upload_queue)
            /\ SubSeq(upload_queue', 1, Len(upload_queue)) = upload_queue
            /\ uploads' = uploads
            /\ sent' = sent
            /\ frame' = NoFrame
            /\ \A i \in Tasks : history'[i] = history[i]
      /\ (cancelled' /\ ~cancelled /\ observer = "running") => main_pc' = "stop"
      /\ (observer' = "stopped" /\ observer # "stopped") => main_pc = "stop"
      /\ (observer' = "joined" /\ observer # "joined") => observer = "stopped"
      /\ (client' = "closed" /\ client = "open" /\ observer # "none") =>
            observer = "joined"
    ]_vars

\* C10 witness: the task was cancelled during an upload with a further task
\* queued; main has finished with the observer joined and the client closed,
\* the queued task never having been touched
C10_Witness ==
  /\ cancelled
  /\ main_pc = "done"
  /\ observer = "joined"
  /\ client = "closed"
  /\ Len(history) >= 2
  /\ history[1].life = "Abandoned"
  /\ history[1].calls = <<"sleep", "upload">>
  /\ history[2].life = "Queued"
  /\ upload_queue # <<>>

\* C11 as stated: the consumer loop exits only after the attempt of its
\* current task has run to completion, so that no task is ever left
\* abandoned in the middle of its attempt.
C11_CurrentTaskCompletes ==
  \A i \in Tasks : history[i].life # "Abandoned"

\* C11: a cancellation that arrives while a task is in flight ends the
\* attempt at the await where it is suspended: the task is abandoned with the
\* calls made so far and no further one, upload_file reports nothing (it is
\* left by CancelledError), and main goes straight to observer.stop(); a task
\* is abandoned in no other way.
C11_CancelAbandons ==
  [][ /\ (cancelled' /\ ~cancelled /\ frame # NoFrame) =>
            /\ history'[frame.id].life = "Abandoned"
            /\ history'[frame.id].calls = history[frame.id].calls
            /\ outcome' = "CancelledError"
            /\ uploads' = uploads
            /\ sent' = sent
            /\ main_pc' = "stop"
      /\ \A i \in Tasks :
            (history'[i].life = "Abandoned" /\ history[i].life # "Abandoned") =>
              (cancelled' /\ ~cancelled /\ frame # NoFrame /\ frame.id = i)
    ]_vars

\* C11 witness: the loop has been left for observer.stop() by a cancellation
\* that arrived during the upload call of the first task: the upload was
\* started, no message was sent and nothing was reported
C11_Witness ==
  /\ main_pc = "stop"
  /\ cancelled
  /\ outcome = "CancelledError"
  /\ history # <<>>
  /\ history[1].life = "Abandoned"
  /\ history[1].calls = <<"sleep", "upload">>
  /\ uploads = 1
  /\ sent = {}

\* C12: when the frequency list is empty, main ends the startup: no call of
\* get_or_create_room is ever made, the table stays empty, the observer is
\* never created or started and the consumer loop is never entered (nothing
\* is enqueued or dequeued); main is either at the emptiness test or done.
C12_EmptyIsFatal ==
  frequencies = <<>> =>
    /\ main_pc \in {"check", "done"}
    /\ resolve_calls = <<>>
    /\ DOMAIN room_ids = {}
    /\ observer = "none"
    /\ upload_queue = <<>>
    /\ history = <<>>
    /\ getter = "none"
    /\ uploads = 0
    /\ sent = {}
    /\ main_pc = "done" => client = "closed"

\* C12 witness: main has returned from the emptiness test of an empty list
\* with the client closed
C12_Witness ==
  /\ frequencies = <<>>
  /\ main_pc = "done"
  /\ client = "closed"
  /\ observer = "none"

\* the call of get_or_create_room made by this step failed: the alias did not
\* resolve and room_create answered RoomCreateError
ResolveFails ==
  /\ Len(resolve_calls') = Len(resolve_calls) + 1
  /\ main_pc' = "raised"

\* C18: a call of get_or_create_room that fails records nothing and ends
\* main before the observer exists, so that nothing is ever enqueued; the
\* table holds an entry exactly for the frequencies of the calls that
\* returned, each entry is a room identifier the homeserver returned, and
\* every task ever enqueued carries such an identifier, taken from the table.
C18_NoUnusableDestination ==
  [][ /\ ResolveFails => room_ids' = room_ids
      /\ (main_pc' = "raised" /\ ~cancelled') =>
            /\ frequencies'[index'] \notin
                  {frequencies'[k] : k \in 1..(index' - 1)} =>
                    frequencies'[index'] \notin DOMAIN room_ids'
            /\ observer' = "none"
            /\ upload_queue' = <<>>
            /\ history' = <<>>
      /\ main_pc = "raised" => room_ids' = room_ids
      /\ DOMAIN room_ids' = {frequencies'[k] : k \in 1..(index' - 1)}
      /\ \A f \in DOMAIN room_ids' : room_ids'[f] \in Rooms
      /\ \A i \in 1..Len(history') :
            /\ history'[i].room_id \in Rooms
            /\ \E f \in DOMAIN room_ids' : room_ids'[f] = history'[i].room_id
    ]_vars

\* C18 witness: the room of the first frequency was found or created, the
\* creation of the room of the second failed: main has raised with an entry
\* for the first frequency only
C18_Witness ==
  /\ main_pc = "raised"
  /\ ~cancelled
  /\ resolve_calls = <<1, 2>>
  /\ DOMAIN room_ids = {1}
  /\ observer = "none"

\* C19 as stated: get_or_create_room is called at most once for a frequency,
\* and exactly once for every distinct frequency of the list by the time the
\* observer is started.
C19_OncePerDistinctFrequency ==
  /\ \A f \in Freqs : Count(resolve_calls, f) <= 1
  /\ observer # "none" =>
        \A k \in 1..Len(frequencies) : Count(resolve_calls, frequencies[k]) = 1

\* C19: get_or_create_room is called once per entry of the frequency list, in
\* list order (so twice for a frequency that is listed twice); when the
\* observer is started every entry has had its call and the table has an
\* entry for every listed frequency; once the observer has been started no
\* call is made and the table does not change; an event is handled only
\* after that.
C19_ResolveThenObserve ==
  [][ /\ resolve_calls' = SubSeq(frequencies', 1, Len(resolve_calls'))
      /\ observer' # "none" =>
            /\ resolve_calls' = frequencies'
            /\ DOMAIN room_ids' = {frequencies'[k] : k \in 1..Len(frequencies')}
      /\ observer # "none" =>
            /\ room_ids' = room_ids
            /\ resolve_calls' = resolve_calls
      /\ events' # events =>
            /\ observer = "running"
            /\ resolve_calls = frequencies
            /\ room_ids' = room_ids
    ]_vars

\* C19 witness: the frequency 1 is listed twice; get_or_create_room was
\* called twice for it, the observer runs and an event has been handled
C19_Witness ==
  /\ frequencies = <<1, 1>>
  /\ resolve_calls = <<1, 1>>
  /\ observer = "running"
  /\ DOMAIN room_ids = {1}
  /\ events >= 1

\* the single-frequency specification, the event loop running every step of
\* main that is ready
FairSpecOne == SpecOne /\ WF_vars(ConsumerStep)

\* the consumer loop has been entered
LoopEntered == observer # "none"

\* main has returned with the observer joined and the client closed
Finished == main_pc = "done" /\ observer = "joined" /\ client = "closed"

\* C20: main reaches observer.join() only with the observer stopped, and
\* whenever main has been cancelled inside the consumer loop (waiting on the
\* empty queue, in the settle delay, uploading or sending) it eventually
\* returns with the observer joined and the client closed.
C20_ShutdownTerminates ==
  /\ [](main_pc = "join" => observer = "stopped")
  /\ (cancelled /\ LoopEntered) ~> Finished

\* C20 witness: main was cancelled while it waited on the empty queue and
\* has returned with the observer joined and the client closed
C20_Witness ==
  /\ cancelled
  /\ Finished
  /\ history = <<>>
  /\ events = 0

(***************************************************************************)
(* The parser functions on their own: each specification draws an argument *)
(* and applies one function to it.  main has not gone past parse_channels. *)
(***************************************************************************)
\* longest value string (without its quotes) drawn exhaustively
MaxLiteral == 3

\* the strings of at most n characters of an alphabet
Strings(alphabet, n) == UNION {[1..k -> alphabet] : k \in 0..n}

\* characters of the unquoted and of the quoted value strings
Chars == {"1", "4", ".", "-", "+", "_", "e", " ", Quote}
QuotedChars == {"1", "4", ".", "k", "M", "g", "-"}

\* the examples of parse_frequency's docstring, and a decimal with an
\* exponent beyond the range of a float
LongLiterals ==
  {<<"1", "2", "1", "5", "0", "0", "0", "0", "0">>,
   <<"1", "2", "1", ".", "5">>,
   <<Quote, "1", "2", "1", ".", "5", "M", Quote>>,
   <<"1", ".", "0", "e", "3", "0", "9">>}

\* the value strings parse_frequency is applied to
Literals ==
  Strings(Chars, MaxLiteral)
    \cup {<<Quote>> \o s \o <<Quote>> : s \in Strings(QuotedChars, MaxLiteral)}
    \cup LongLiterals

main_vars == <<main_pc, frequencies, index, room_ids, client, observer,
               upload_queue, getter, frame, mxc_uri, uploads, sent, events,
               last_event, history, outcome, cancelled, resolve_calls>>

\* main before parse_channels has returned
Unstarted ==
  /\ main_pc = "check"
  /\ frequencies = <<>>
  /\ index = 1
  /\ room_ids = [f \in {} |-> NoRoom]
  /\ client = "open"
  /\ observer = "none"
  /\ upload_queue = <<>>
  /\ getter = "none"
  /\ frame = NoFrame
  /\ mxc_uri = NoUri
  /\ uploads = 0
  /\ sent = {}
  /\ events = 0
  /\ last_event = NoEvent
  /\ history = <<>>
  /\ outcome = "none"
  /\ cancelled = FALSE
  /\ resolve_calls = <<>>

InitFrequency ==
  /\ Unstarted
  /\ function = "parse_frequency"
  /\ argument \in Literals
  /\ skip_disabled = TRUE
  /\ result = Pending

\* parse_frequency(argument) is called and returns or raises
call_parse_frequency ==
  /\ function = "parse_frequency"
  /\ result = Pending
  /\ result' = parse_frequency(argument)
  /\ UNCHANGED <<main_vars, function, argument, skip_disabled>>

NextFrequency == call_parse_frequency

SpecFrequency == InitFrequency /\ [][NextFrequency]_vars

\* parse_frequency has been applied to the value string
FrequencyParsed == function = "parse_frequency" /\ result # Pending

\* The recognized forms of a value string, as the specification lists them:
\* a bare integer, a bare decimal, and a quoted digits[.digits] with an
\* optional unit letter.
BareInteger(v) == v # <<>> /\ \A i \in 1..Len(v) : v[i] \in Digits

BareDecimal(v) ==
  /\ Len(v) >= 2
  /\ \E d \in 1..Len(v) : v[d] = "." /\ \A i \in 1..Len(v) : i # d => v[i] \in Digits

\* the quoted string without its quotes and without its unit letter
QuotedBody(v) ==
  LET inner == SubSeq(v, 2, Len(v) - 1)
  IN  IF inner # <<>> /\ inner[Len(inner)] \in Units
      THEN SubSeq(inner, 1, Len(inner) - 1) ELSE inner

QuotedNumber(v) ==
  /\ Len(v) >= 2
  /\ v[1] = Quote
  /\ v[Len(v)] = Quote
  /\ \/ BareInteger(QuotedBody(v))
     \/ /\ BareDecimal(QuotedBody(v))
        /\ QuotedBody(v)[1] # "."
        /\ QuotedBody(v)[Len(QuotedBody(v))] # "."

Recognized(v) == BareInteger(v) \/ BareDecimal(v) \/ QuotedNumber(v)

\* the digits before and after the decimal point of a decimal
WholePart(v) ==
  IF \E i \in 1..Len(v) : v[i] = "."
  THEN SubSeq(v, 1, (CHOOSE i \in 1..Len(v) : v[i] = ".") - 1) ELSE v
FractionPart(v) ==
  IF \E i \in 1..Len(v) : v[i] = "."
  THEN SubSeq(v, (CHOOSE i \in 1..Len(v) : v[i] = ".") + 1, Len(v)) ELSE <<>>

\* the decimal exponent of a unit letter
UnitPower(v) ==
  LET c == v[Len(v) - 1]
  IN  IF c \in {"k", "K"} THEN 3 ELSE IF c \in {"m", "M"} THEN 6
      ELSE IF c \in {"g", "G"} THEN 9 ELSE 0

\* whole.fraction * 10^k is an integer
ExactProduct(fraction, k) ==
  \A i \in (k + 1)..Len(fraction) : fraction[i] = "0"

\* round(whole.fraction * 10^k), in decimal arithmetic (ties to even)
Scaled(whole, fraction, k) ==
  LET kept == whole \o [i \in 1..k |-> IF i <= Len(fraction) THEN fraction[i] ELSE "0"]
      rest == SubSeq(fraction, k + 1, Len(fraction))
      odd == kept # <<>> /\ DigitValue(kept[Len(kept)]) % 2 = 1
      up == /\ rest # <<>>
            /\ \/ DigitValue(rest[1]) > 5
               \/ /\ DigitValue(rest[1]) = 5
                  /\ odd \/ \E i \in 2..Len(rest) : rest[i] # "0"
  IN  numeral(FALSE, IF up THEN digits_of_natural(add_small(natural_of_digits(kept), 1))
                     ELSE kept)

\* the value in Hz the specification gives to a recognized value string
ReferenceHz(v) ==
  IF BareInteger(v) THEN numeral(FALSE, v)
  ELSE IF BareDecimal(v) THEN Scaled(WholePart(v), FractionPart(v), 6)
  ELSE Scaled(WholePart(QuotedBody(v)), FractionPart(QuotedBody(v)), UnitPower(v))

\* the value string denotes a whole number of Hz
WholeHz(v) ==
  QuotedNumber(v) => ExactProduct(FractionPart(QuotedBody(v)), UnitPower(v))

\* C15: applied to a recognized value string that denotes a whole number of
\* Hz (or to any bare decimal), parse_frequency returns the reference value:
\* int(v) for a bare integer, round(v * 1,000,000) for a bare decimal, the
\* number times 1, 10^3, 10^6 or 10^9 for a quoted number.
C15_ValueTable ==
  (FrequencyParsed /\ Recognized(strip(argument)) /\ WholeHz(strip(argument)))
    => result = Returned(ReferenceHz(strip(argument)))

\* C16: applied to a value string that is not of a recognized form,
\* parse_frequency raises ValueError.
C16_UnrecognizedRejected ==
  (FrequencyParsed /\ ~Recognized(strip(argument)))
    => result = Raised("ValueError")

\* longest configuration text, in tokens, given to extract_channels_content
MaxTokens == 6

\* the tokens the configuration texts are made of
Tokens == {keyword, <<"(">>, <<")">>, <<";">>, <<" ">>}

\* the text made of a sequence of tokens
RECURSIVE Flatten(_)
Flatten(tokens) ==
  IF tokens = <<>> THEN <<>> ELSE Head(tokens) \o Flatten(Tail(tokens))

Texts == {Flatten(tokens) : tokens \in Strings(Tokens, MaxTokens)}

InitSection ==
  /\ Unstarted
  /\ function = "extract_channels_content"
  /\ argument \in Texts
  /\ skip_disabled = TRUE
  /\ result = Pending

\* extract_channels_content(argument) is called and returns
call_extract_channels_content ==
  /\ function = "extract_channels_content"
  /\ result = Pending
  /\ result' = extract_channels_content(argument)
  /\ UNCHANGED <<main_vars, function, argument, skip_disabled>>

NextSection == call_extract_channels_content

SpecSection == InitSection /\ [][NextSection]_vars

\* extract_channels_content has been applied to the text
SectionExtracted == function = "extract_channels_content" /\ result # Pending

\* The section as the specification describes it: the positions of the
\* keyword, of the first "(" after it and of the ")" at which the nesting
\* depth first returns to zero (0 where there is none).
Least(S) == IF S = {} THEN 0 ELSE CHOOSE i \in S : \A j \in S : i <= j

KeywordAt(text) == Least({i \in 1..Len(text) : OccursAt(text, keyword, i)})

OpenAt(text) ==
  IF KeywordAt(text) = 0 THEN 0
  ELSE Least({i \in KeywordAt(text)..Len(text) : text[i] = "("})

Depth(text, from, to) ==
  Cardinality({j \in from..to : text[j] = "("})
    - Cardinality({j \in from..to : text[j] = ")"})

CloseAt(text) ==
  IF OpenAt(text) = 0 THEN 0
  ELSE Least({i \in OpenAt(text)..Len(text) : Depth(text, OpenAt(text), i) = 0})

HasSection(text) ==
  /\ CloseAt(text) # 0
  /\ CloseAt(text) < Len(text)
  /\ text[CloseAt(text) + 1] = ";"

Section(text) == SubSeq(text, OpenAt(text) + 1, CloseAt(text) - 1)

\* C14 as stated: extract_channels_content returns the substring strictly
\* between the two parentheses when the closing one is followed by ";", and
\* no section otherwise.
C14_SectionBetween ==
  SectionExtracted =>
    result = IF HasSection(argument) THEN Returned(Section(argument)) ELSE None

\* C14: extract_channels_content returns the substring between the first "("
\* after the keyword and the ")" at which the nesting depth first returns to
\* zero, without its leading and trailing whitespace, exactly when that ")"
\* is followed by ";"; in every other case it returns None and does not
\* raise.
C14_SectionStripped ==
  SectionExtracted =>
    result = IF HasSection(argument) THEN Returned(strip(Section(argument)))
             ELSE None

\* C14 witness: the section holds a nested pair of parentheses: the scan has
\* passed the inner ")" and stopped at the outer one
C14_Witness ==
  /\ SectionExtracted
  /\ argument = keyword \o <<"(", "(", ")", ")", ";">>
  /\ result = Returned(<<"(", ")">>)

\* most channel blocks of a configuration file
MaxBlocks == 2

\* the values of the freq assignments: a bare integer, a bare decimal, a
\* quoted number with a unit, a word, and a decimal beyond the float range
BlockValues ==
  {<<"1">>, <<"4", ".", "1">>, <<Quote, "4", "k", Quote>>, <<"x">>,
   <<"1", ".", "0", "e", "3", "0", "9">>}

\* a channel block: at most one freq assignment, disabled or not
Blocks == [freq : {<<>>} \cup {<<v>> : v \in BlockValues}, disable : BOOLEAN]

\* the text of a channel block
BlockText(block) ==
  <<"{">>
    \o (IF block.freq = <<>> THEN <<>>
        ELSE <<"f", "r", "e", "q", " ", "=", " ">> \o block.freq[1] \o <<";">>)
    \o (IF block.disable THEN <<" ">> \o disable_true ELSE <<>>)
    \o <<"}">>

RECURSIVE BlocksText(_)
BlocksText(blocks) ==
  IF blocks = <<>> THEN <<>>
  ELSE <<" ">> \o BlockText(Head(blocks)) \o BlocksText(Tail(blocks))

\* the text of a configuration file with the given channel blocks; the
\* section is terminated by ");" or, in a damaged file, by ")" alone
ConfigText(blocks, terminated) ==
  keyword \o <<" ", "(">> \o BlocksText(blocks)
    \o (IF terminated THEN <<" ", ")", ";">> ELSE <<" ", ")">>)

\* the configuration files: a missing one, and one for every sequence of at
\* most MaxBlocks channel blocks
Files ==
  {[exists |-> FALSE, blocks |-> <<>>, terminated |-> TRUE, content |-> <<>>]}
    \cup {[exists |-> TRUE, blocks |-> bs, terminated |-> t,
           content |-> ConfigText(bs, t)] :
            bs \in Strings(Blocks, MaxBlocks), t \in BOOLEAN}

InitChannels ==
  /\ Unstarted
  /\ function = "parse_channels"
  /\ argument \in Files
  /\ skip_disabled \in BOOLEAN
  /\ result = Pending

\* parse_channels(config_path) is called and returns
call_parse_channels ==
  /\ function = "parse_channels"
  /\ result = Pending
  /\ result' = parse_channels(argument, skip_disabled)
  /\ UNCHANGED <<main_vars, function, argument, skip_disabled>>

NextChannels == call_parse_channels

SpecChannels == InitChannels /\ [][NextChannels]_vars

\* parse_channels has been applied to a file that has a channel section
ChannelsParsed ==
  /\ function = "parse_channels"
  /\ result # Pending
  /\ argument.exists
  /\ argument.terminated

\* the block has a freq assignment whose value parse_frequency accepts
Parseable(block) ==
  block.freq # <<>> /\ parse_frequency(block.freq[1]).status = "returned"

\* the block is not filtered out by the disabled-channel policy
Included(block, skip) == ~skip \/ ~block.disable

\* the frequencies of the blocks that are included and parseable, in order
RECURSIVE Surviving(_, _)
Surviving(blocks, skip) ==
  IF blocks = <<>> THEN <<>>
  ELSE (IF Included(Head(blocks), skip) /\ Parseable(Head(blocks))
        THEN <<parse_frequency(Head(blocks).freq[1]).value>> ELSE <<>>)
         \o Surviving(Tail(blocks), skip)

\* C13: parse_channels returns, in source order, the frequencies of exactly
\* the blocks that have a parseable freq assignment and that are not
\* disabled or are read with skip_disabled false.
C13_SurvivingInOrder ==
  ChannelsParsed => result = Returned(Surviving(argument.blocks, skip_disabled))

\* parse_frequency fails on the value of a block that the policy includes
BadBlock(block, skip) ==
  Included(block, skip) /\ block.freq # <<>> /\ ~Parseable(block)

\* C17: when parse_frequency fails on the value of some block, parse_channels
\* still returns the frequencies of the other surviving blocks, in order; it
\* returns the empty list only if no block survives.
C17_BadBlockSkipped ==
  (ChannelsParsed /\ \E i \in 1..Len(argument.blocks) :
                       BadBlock(argument.blocks[i], skip_disabled))
    => /\ result.status = "returned"
       /\ result.value = Surviving(argument.blocks, skip_disabled)
       /\ Surviving(argument.blocks, skip_disabled) # <<>> => result.value # <<>>

====
